---- MODULE Spec2Model ----
(***************************************************************************)
(* Model of the sshauth command of poseidon (src/unnamed/part_000): the    *)
(* task handler Run, the orchestrator SSHBruteForce, the per-host limiter  *)
(* SSHAuthenticator.Brute and the single attempt SSHLogin, which all meet  *)
(* on the package-level unbuffered channel sshResultChan.                  *)
(*                                                                         *)
(* Goroutines are modelled by their position: the caller of SSHBruteForce  *)
(* (job[j].pc), one worker per host (worker[j][k].pc) and one trial per    *)
(* launched credential (the records in the bag worker[j][k].trials).      *)
(***************************************************************************)
EXTENDS Integers, Sequences, FiniteSets, Bags, TLC

VARIABLES
    job,            \* job[j]: one invocation of SSHBruteForce: arguments, loop position, successfulHosts
    worker,         \* worker[j][k]: the goroutine running SSHBruteHost for hosts[k] of job j
    net,            \* net[h]: what the network can answer when host h is dialled
    crashed,        \* TRUE once a goroutine has panicked: the process is gone
    run,            \* the invocation of Run: position, parameters, tMsg
    threadChannel,  \* the messages Run has sent to its caller
    stdout          \* number of [DEBUG] lines printed

vars == <<job, worker, net, crashed, run, threadChannel, stdout>>

----------------------------------------------------------------------------
(* Bounds of the model *)

\* Largest number of (host, credential) pairs of a job SSHBruteForce is
\* called with directly.
MaxPairs == 3
\* Largest number of hosts the host entries of a request to Run expand to.
MaxRunHosts == 2
\* Largest number of host entries in the parameters of Run.
MaxEntries == 2
\* Number of credentials of the job that saturates the per-host ceiling.
CeilingCreds == 101
\* Number of invocations of SSHBruteForce the model has room for.
NumJobs == 2

JobIds == 1..NumJobs

----------------------------------------------------------------------------
(* Program constants *)

\* var lim int64 = 100
lim == 100
\* params.Port = 22
DefaultPort == 22

MarkerText == "[-] No successful authentication attempts."
ErrNoHosts == "Error: No host or list of hosts given."
ErrNoSecret == "Error: No password or private key given to attempt authentication with."
ErrNoUsername == "Error: No username given to attempt authentication with."
ErrUnmarshal == "json: unmarshal error"
SessionErrText == "ssh: session error"

----------------------------------------------------------------------------
(* The environment: hosts, key files, credentials *)

HostPool == <<"h1", "h2", "h3", "h4", "h5", "h6">>

HostSet == {HostPool[n] : n \in 1..Len(HostPool)}

\* What a dial against a host can end in: ssh.Dial fails (unreachable, timeout
\* after 500 ms, handshake or authentication rejected), ssh.Dial succeeds and
\* NewSession fails, or both succeed.
DialOutcomes == {"dialerr", "sesserr", "ok"}

\* The private-key paths that can be read and parsed.
GoodKeyFiles == {"good.key"}

CredPool ==
    { [Username |-> "root", Password |-> "pw", PrivateKey |-> ""],
      [Username |-> "root", Password |-> "pw", PrivateKey |-> "good.key"],
      [Username |-> "admin", Password |-> "pw2", PrivateKey |-> "missing.key"] }

----------------------------------------------------------------------------
(* SSHLogin: the configuration, the result record and the three branches *)

\* Timeout: 500 * time.Millisecond
DialTimeoutMs == 500

\* The ssh.AuthMethod value nil, which PublicKeyFile returns on failure.
NilAuthMethod == [method |-> "nil", secret |-> ""]

PasswordAuth(password) == [method |-> "password", secret |-> password]

\* PublicKeyFile: nil when the file cannot be read or parsed.
PublicKeyFile(file) ==
    IF file \in GoodKeyFiles
    THEN [method |-> "publickey", secret |-> file]
    ELSE NilAuthMethod

\* A configuration that offers the password when the key gives no method.
SSHConfigFallback(cred) ==
    [User |-> cred.Username,
     Timeout |-> DialTimeoutMs,
     Auth |-> IF cred.PrivateKey = "" \/ PublicKeyFile(cred.PrivateKey) = NilAuthMethod
              THEN <<PasswordAuth(cred.Password)>>
              ELSE <<PublicKeyFile(cred.PrivateKey)>>]

\* The ssh.ClientConfig SSHLogin builds: the password method when the
\* credential has no private key, else the single method PublicKeyFile gives.
SSHConfig(cred) ==
    [User |-> cred.Username,
     Timeout |-> DialTimeoutMs,
     Auth |-> IF cred.PrivateKey = ""
              THEN <<PasswordAuth(cred.Password)>>
              ELSE <<PublicKeyFile(cred.PrivateKey)>>]

\* A result that always echoes the password (used to test C14).
NewResultPasswordSecret(host, cred) ==
    [Status |-> "",
     Success |-> FALSE,
     Username |-> cred.Username,
     Secret |-> cred.Password,
     Host |-> host]

\* res := SSHResult{Host, Username}, then res.Secret.
NewResult(host, cred) ==
    [Status |-> "",
     Success |-> FALSE,
     Username |-> cred.Username,
     Secret |-> IF cred.PrivateKey = "" THEN cred.Password ELSE cred.PrivateKey,
     Host |-> host]

\* What ssh.Dial followed by NewSession can end in for this configuration.
\* A nil entry in Auth is dereferenced by the client's authentication loop
\* (a.method() on a nil interface) as soon as the handshake reaches it: the
\* goroutine panics. A host that never completes the handshake gives the
\* dial error before that.
DialResults(config, h) ==
    IF \E n \in 1..Len(config.Auth) : config.Auth[n] = NilAuthMethod
    THEN (net[h] \cap {"dialerr"})
            \cup (IF net[h] \ {"dialerr"} # {} THEN {"panic"} ELSE {})
    ELSE net[h]

\* Branches that leave res.Status alone when the session cannot be opened.
SSHLoginResultNoStatus(res, outcome) ==
    [res EXCEPT !.Success = (outcome = "ok")]

\* The three branches of SSHLogin after the dial, as the result each sends.
SSHLoginResult(res, outcome) ==
    CASE outcome = "dialerr" -> [res EXCEPT !.Success = FALSE]
      [] outcome = "sesserr" -> [res EXCEPT !.Success = FALSE, !.Status = SessionErrText]
      [] outcome = "ok" -> [res EXCEPT !.Success = TRUE]

\* A trial goroutine as Brute launches it: SSHLogin has built its
\* configuration and its result and is about to dial.
NewTrial(host, cred) ==
    [cred |-> cred,
     config |-> SSHConfig(cred),
     pc |-> "dial",
     outcome |-> "none",
     res |-> NewResult(host, cred),
     sent |-> 0]

\* SSHLogin without the return after a send: it falls through to the next send.
AfterSendFallThrough(t) == [t EXCEPT !.sent = @ + 1]

\* SSHLogin after its send completed: it returns, and the deferred wg.Done
\* is next.
AfterSend(t) == [t EXCEPT !.pc = "wgdone", !.sent = @ + 1]

----------------------------------------------------------------------------
(* Bags of trials *)

BagAdd(B, e) == B (+) SetToBag({e})
BagRemove(B, e) == B (-) SetToBag({e})
BagReplace(B, old, new) == BagAdd(BagRemove(B, old), new)

\* Number of trials of the bag whose record satisfies Test.
BagCount(B, Test(_)) ==
    LET S == {e \in BagToSet(B) : Test(e)}
        RECURSIVE Sum(_)
        Sum(T) == IF T = {} THEN 0
                  ELSE LET e == CHOOSE x \in T : TRUE
                       IN B[e] + Sum(T \ {e})
    IN Sum(S)

----------------------------------------------------------------------------
(* State of the goroutines *)

IdleJob ==
    [pc |-> "idle", hosts |-> <<>>, port |-> 0, creds |-> <<>>, debug |-> FALSE,
     i |-> 0, successfulHosts |-> <<>>, received |-> EmptyBag]

\* SSHBruteForce(hosts, port, creds, debug) at its first statement.
CallSSHBruteForce(hosts, port, creds, debug) ==
    [pc |-> "launch", hosts |-> hosts, port |-> port, creds |-> creds, debug |-> debug,
     i |-> 0, successfulHosts |-> <<>>, received |-> EmptyBag]

\* The goroutine of one host before SSHBruteForce has started it.
IdleWorker == [pc |-> "idle", i |-> 0, cur |-> 0, wg |-> 0, trials |-> EmptyBag]

\* SSHBruteHost: a fresh semaphore of weight lim, then Brute at its loop.
SSHBruteHost == [pc |-> "loop", i |-> 0, cur |-> 0, wg |-> 0, trials |-> EmptyBag]

IdleWorkers(hosts) == [k \in 1..Len(hosts) |-> IdleWorker]

HostIdx(j) == 1..Len(job[j].hosts)

TrialsOf(j, k) == BagToSet(worker[j][k].trials)

\* The slots held on the semaphores of all hosts of all jobs together.
RECURSIVE HeldUpTo(_, _)
HeldUpTo(j, k) == IF k = 0 THEN 0 ELSE worker[j][k].cur + HeldUpTo(j, k - 1)

RECURSIVE HeldByJobs(_)
HeldByJobs(j) == IF j = 0 THEN 0 ELSE HeldUpTo(j, Len(worker[j])) + HeldByJobs(j - 1)

\* An Acquire on one semaphore shared by every host (used to test C13).
CanAcquireShared(cur) == HeldByJobs(NumJobs) + 1 <= lim

\* An Acquire that never blocks.
CanAcquireAlways(cur) == TRUE

\* semaphore.Weighted.Acquire(ctx, 1) returns at once when a slot is free
\* and otherwise blocks (context.TODO() is never cancelled).
CanAcquire(cur) == cur + 1 <= lim

\* A loop body that appends whatever it receives.
AccumulateAll(list, res) == Append(list, res)

\* if res.Success { successfulHosts = append(successfulHosts, res) }
Accumulate(list, res) == IF res.Success THEN Append(list, res) ELSE list

\* A second loop that runs once too often, i <= len(hosts) (used to test C17).
ReceiveCountOneMore(hosts, creds) == Len(hosts) + 1

\* The number of receives the second loop of SSHBruteForce performs.
ReceiveCount(hosts, creds) == Len(hosts)

----------------------------------------------------------------------------
(* SSHBruteForce *)

\* One iteration of the first loop: go SSHBruteHost(hosts[i], ...).
LaunchWorker(j) ==
    /\ ~crashed
    /\ job[j].pc = "launch"
    /\ job[j].i < Len(job[j].hosts)
    /\ job' = [job EXCEPT ![j].i = @ + 1]
    /\ worker' = [worker EXCEPT ![j][job[j].i + 1] = SSHBruteHost]
    /\ UNCHANGED <<net, crashed, run, threadChannel, stdout>>

\* The first loop ends: var successfulHosts, and the second loop begins.
LaunchDone(j) ==
    /\ ~crashed
    /\ job[j].pc = "launch"
    /\ job[j].i = Len(job[j].hosts)
    /\ job' = [job EXCEPT ![j].pc = "recv", ![j].i = 0]
    /\ UNCHANGED <<worker, net, crashed, run, threadChannel, stdout>>

\* res := <-sshResultChan meets sshResultChan <- res of some trial of any
\* job (the channel is one package-level unbuffered channel): the value is
\* handed over, the receiver appends it when Success, the sender goes on.
Receive(jr, js, k, t) ==
    /\ ~crashed
    /\ job[jr].pc = "recv"
    /\ job[jr].i < ReceiveCount(job[jr].hosts, job[jr].creds)
    /\ job[js].pc # "idle"
    /\ k \in HostIdx(js)
    /\ t \in TrialsOf(js, k)
    /\ t.pc = "send"
    /\ job' = [job EXCEPT
                 ![jr].i = @ + 1,
                 ![jr].successfulHosts = Accumulate(@, t.res),
                 ![jr].received = BagAdd(@, [src |-> js, res |-> t.res])]
    /\ worker' = [worker EXCEPT ![js][k].trials = BagReplace(@, t, AfterSend(t))]
    /\ UNCHANGED <<net, crashed, run, threadChannel, stdout>>

\* The second loop ends: return successfulHosts.
Return(j) ==
    /\ ~crashed
    /\ job[j].pc = "recv"
    /\ job[j].i = ReceiveCount(job[j].hosts, job[j].creds)
    /\ job' = [job EXCEPT ![j].pc = "returned"]
    /\ UNCHANGED <<worker, net, crashed, run, threadChannel, stdout>>

----------------------------------------------------------------------------
(* SSHAuthenticator.Brute *)

\* One iteration of the loop: Acquire, wg.Add(1), go func(creds[i]).
BruteLaunch(j, k) ==
    /\ ~crashed
    /\ k \in HostIdx(j)
    /\ worker[j][k].pc = "loop"
    /\ worker[j][k].i < Len(job[j].creds)
    /\ CanAcquire(worker[j][k].cur)
    /\ worker' = [worker EXCEPT
                    ![j][k].i = @ + 1,
                    ![j][k].cur = @ + 1,
                    ![j][k].wg = @ + 1,
                    ![j][k].trials =
                        BagAdd(@, NewTrial(job[j].hosts[k], job[j].creds[worker[j][k].i + 1]))]
    /\ UNCHANGED <<job, net, crashed, run, threadChannel, stdout>>

\* wg.Wait() returns at once, whatever the counter (used to test C11).
WaitReturnsAtOnce(wg) == TRUE

\* wg.Wait() blocks until the WaitGroup counter is zero.
WaitReturns(wg) == wg = 0

\* The loop is over and wg.Wait() returns: Brute and SSHBruteHost return.
BruteReturn(j, k) ==
    /\ ~crashed
    /\ k \in HostIdx(j)
    /\ worker[j][k].pc = "loop"
    /\ worker[j][k].i = Len(job[j].creds)
    /\ WaitReturns(worker[j][k].wg)
    /\ worker' = [worker EXCEPT ![j][k].pc = "returned"]
    /\ UNCHANGED <<job, net, crashed, run, threadChannel, stdout>>

----------------------------------------------------------------------------
(* The trial goroutine: SSHLogin, then the deferred wg.Done and Release *)

\* ssh.Dial and NewSession return (or panic): SSHLogin takes its branch and
\* reaches the send of that branch.
Dial(j, k, t) ==
    /\ ~crashed
    /\ k \in HostIdx(j)
    /\ t \in TrialsOf(j, k)
    /\ t.pc = "dial"
    /\ \E o \in DialResults(t.config, job[j].hosts[k]) :
         IF o = "panic"
         THEN /\ crashed' = TRUE
              /\ worker' = [worker EXCEPT ![j][k].trials =
                               BagReplace(@, t, [t EXCEPT !.pc = "panic", !.outcome = o])]
              /\ UNCHANGED stdout
         ELSE /\ UNCHANGED crashed
              /\ worker' = [worker EXCEPT ![j][k].trials =
                               BagReplace(@, t, [t EXCEPT !.pc = "send",
                                                          !.outcome = o,
                                                          !.res = SSHLoginResult(@, o)])]
              /\ stdout' = IF o = "dialerr" /\ job[j].debug THEN stdout + 1 ELSE stdout
    /\ UNCHANGED <<job, net, run, threadChannel>>

\* wg.Done() called as soon as the goroutine has a result, not deferred to
\* the return of SSHLogin (used to test C18).
DeferredDoneEarly(t) == t.pc \in {"send", "wgdone"}

\* The deferred calls run when SSHLogin has returned, i.e. after its send.
DeferredDone(t) == t.pc = "wgdone"

\* A Release that gives no slot back (used to test C12).
SemReleaseNone(cur) == cur

\* semaphore.Weighted.Release(1)
SemRelease(cur) == cur - 1

\* defer wg.Done()
WgDone(j, k, t) ==
    /\ ~crashed
    /\ k \in HostIdx(j)
    /\ t \in TrialsOf(j, k)
    /\ DeferredDone(t)
    /\ worker' = [worker EXCEPT
                    ![j][k].wg = @ - 1,
                    ![j][k].trials = BagReplace(@, t, [t EXCEPT !.pc = "release"])]
    /\ UNCHANGED <<job, net, crashed, run, threadChannel, stdout>>

\* defer auth.lock.Release(1), and the goroutine ends.
Release(j, k, t) ==
    /\ ~crashed
    /\ k \in HostIdx(j)
    /\ t \in TrialsOf(j, k)
    /\ t.pc = "release"
    /\ worker' = [worker EXCEPT
                    ![j][k].cur = SemRelease(@),
                    ![j][k].trials = BagReplace(@, t, [t EXCEPT !.pc = "exit"])]
    /\ UNCHANGED <<job, net, crashed, run, threadChannel, stdout>>

----------------------------------------------------------------------------
(* Run *)

\* The host entries a request can carry: a single address, a range, and a
\* string that is no address or range.
HostEntries == {"h1", "h2/31", "bogus"}

\* portscan.NewCIDR: the hosts of an address or range, in order, or an error.
NewCIDR(entry) ==
    CASE entry = "h1" -> [err |-> FALSE, Hosts |-> <<"h1">>]
      [] entry = "h2/31" -> [err |-> FALSE, Hosts |-> <<"h2", "h3">>]
      [] OTHER -> [err |-> TRUE, Hosts |-> <<>>]

\* A loop that ends at the first entry NewCIDR rejects (used to test C15).
RECURSIVE TotalHostsStopAtBad(_)
TotalHostsStopAtBad(entries) ==
    IF entries = <<>> THEN <<>>
    ELSE LET c == NewCIDR(Head(entries))
         IN IF c.err THEN <<>> ELSE c.Hosts \o TotalHostsStopAtBad(Tail(entries))

\* The loop of Run over params.Hosts: entries NewCIDR rejects are skipped,
\* the hosts of the others are appended in order.
RECURSIVE TotalHosts(_)
TotalHosts(entries) ==
    IF entries = <<>> THEN <<>>
    ELSE LET c == NewCIDR(Head(entries))
         IN (IF c.err THEN <<>> ELSE c.Hosts) \o TotalHosts(Tail(entries))

TextResult(text) == [kind |-> "text", text |-> text, list |-> <<>>]

\* json.MarshalIndent(results, "", "    "): the list rendered as indented
\* JSON; a slice of SSHResult (strings and a bool) always marshals.
MarshalIndent(results) ==
    [err |-> FALSE, data |-> [kind |-> "json", text |-> "", list |-> results]]

\* A message whose TaskItem is never set (used to test C19).
ThreadMsgNoTask(task, result, error) ==
    [TaskItem |-> "none", TaskResult |-> result, Error |-> error]

\* tMsg := structs.ThreadMsg{}; tMsg.TaskItem = task; then TaskResult and Error.
ThreadMsg(task, result, error) == [TaskItem |-> task, TaskResult |-> result, Error |-> error]

\* The checks of Run without the one on the username.
ValidationErrorNoUsername(params) ==
    IF ~params.ok THEN ErrUnmarshal
    ELSE IF Len(params.Hosts) = 0 THEN ErrNoHosts
    ELSE IF params.Password = "" /\ params.PrivateKey = "" THEN ErrNoSecret
    ELSE ""

\* The checks of Run before the job, in order: the message of the first that
\* fails, or "" when the request passes.
ValidationError(params) ==
    IF ~params.ok THEN ErrUnmarshal
    ELSE IF Len(params.Hosts) = 0 THEN ErrNoHosts
    ELSE IF params.Password = "" /\ params.PrivateKey = "" THEN ErrNoSecret
    ELSE IF params.Username = "" THEN ErrNoUsername
    ELSE ""

\* if params.Port == 0 { params.Port = 22 }
PortOf(params) == IF params.Port = 0 THEN DefaultPort ELSE params.Port

\* cred := Credential{Username, Password, PrivateKey}
CredentialOf(params) ==
    [Username |-> params.Username, Password |-> params.Password,
     PrivateKey |-> params.PrivateKey]

\* Run from its first statement to the call of SSHBruteForce: a request that
\* fails a check is answered with the error and Run returns; otherwise
\* SSHBruteForce(totalHosts, params.Port, []Credential{cred}, false) is called.
RunValidate ==
    /\ ~crashed
    /\ run.pc = "start"
    /\ LET e == ValidationError(run.params)
           hosts == TotalHosts(run.params.Hosts)
       IN IF e # ""
          THEN /\ run' = [run EXCEPT !.pc = "done",
                                     !.tMsg = ThreadMsg(run.params.task, TextResult(e), TRUE)]
               /\ threadChannel' = Append(threadChannel, run'.tMsg)
               /\ UNCHANGED <<job, worker>>
          ELSE /\ run' = [run EXCEPT !.pc = "brute"]
               /\ job' = [job EXCEPT ![run.job] =
                            CallSSHBruteForce(hosts, PortOf(run.params),
                                              <<CredentialOf(run.params)>>, FALSE)]
               /\ worker' = [worker EXCEPT ![run.job] = IdleWorkers(hosts)]
               /\ UNCHANGED threadChannel
    /\ UNCHANGED <<net, crashed, stdout>>

\* A Run that marshals the list whether or not it is empty.
RunOutputAlwaysMarshal(task, results) == ThreadMsg(task, MarshalIndent(results).data, FALSE)

\* The message Run builds from the list SSHBruteForce returned.
RunOutput(task, results) ==
    IF Len(results) > 0
    THEN LET m == MarshalIndent(results)
         IN IF m.err
            THEN ThreadMsg(task, TextResult("json: marshal error"), TRUE)
            ELSE ThreadMsg(task, m.data, FALSE)
    ELSE ThreadMsg(task, TextResult(MarkerText), FALSE)

\* Run after SSHBruteForce returned: render and threadChannel <- tMsg.
RunFinish ==
    /\ ~crashed
    /\ run.pc = "brute"
    /\ job[run.job].pc = "returned"
    /\ run' = [run EXCEPT !.pc = "done",
                          !.tMsg = RunOutput(run.params.task, job[run.job].successfulHosts)]
    /\ threadChannel' = Append(threadChannel, run'.tMsg)
    /\ UNCHANGED <<job, worker, net, crashed, stdout>>

----------------------------------------------------------------------------
(* Initial states *)

NoParams ==
    [ok |-> TRUE, task |-> "none", Hosts |-> <<>>, Port |-> 0,
     Username |-> "", Password |-> "", PrivateKey |-> ""]

NoMsg == ThreadMsg("none", TextResult(""), FALSE)

SeqsUpTo(S, n) == UNION {[1..m -> S] : m \in 0..n}

\* The requests Run is given: one that does not unmarshal, and every
\* combination of present and absent fields.
RunParams ==
    {[NoParams EXCEPT !.ok = FALSE, !.task = "t1"]} \cup
    {[ok |-> TRUE, task |-> "t1", Hosts |-> hs, Port |-> p,
      Username |-> u, Password |-> pw, PrivateKey |-> pk] :
        hs \in {e \in SeqsUpTo(HostEntries, MaxEntries) : Len(TotalHosts(e)) <= MaxRunHosts},
        p \in {0, 2222}, u \in {"", "root"}, pw \in {"", "pw"},
        pk \in {"", "good.key", "missing.key"}}

\* A request that passes every check of Run.
Accepted(params) ==
    /\ params.ok
    /\ Len(params.Hosts) > 0
    /\ params.Username # ""
    /\ params.Password # "" \/ params.PrivateKey # ""

\* The jobs SSHBruteForce is called with directly: hosts x creds pairs.
JobShapes == {hc \in (1..MaxPairs) \X (1..MaxPairs) : hc[1] * hc[2] <= MaxPairs}

AnyNet == [h \in HostSet |-> DialOutcomes]

\* One call of Run in a process that does nothing else.
InitRun ==
    /\ run \in {[pc |-> "start", job |-> 1, params |-> p, tMsg |-> NoMsg] : p \in RunParams}
    /\ job = [j \in JobIds |-> IdleJob]
    /\ worker = [j \in JobIds |-> <<>>]
    /\ net = AnyNet
    /\ crashed = FALSE
    /\ threadChannel = <<>>
    /\ stdout = 0

\* One call of Run with a request that passes every check, on the default
\* port and with a password, with or without a key file.
InitRunAccepted ==
    /\ InitRun
    /\ Accepted(run.params)
    /\ run.params.Port = 0
    /\ run.params.Password # ""

\* One call of SSHBruteForce in a process that does nothing else, with
\* debug off as Run calls it.
InitDirect ==
    /\ run = [pc |-> "none", job |-> 1, params |-> NoParams, tMsg |-> NoMsg]
    /\ \E hc \in JobShapes :
         \E creds \in [1..hc[2] -> CredPool] :
            /\ job = [j \in JobIds |->
                        IF j = 1
                        THEN CallSSHBruteForce(SubSeq(HostPool, 1, hc[1]), DefaultPort,
                                               creds, FALSE)
                        ELSE IdleJob]
            /\ worker = [j \in JobIds |->
                           IF j = 1 THEN IdleWorkers(SubSeq(HostPool, 1, hc[1])) ELSE <<>>]
    /\ net = AnyNet
    /\ crashed = FALSE
    /\ threadChannel = <<>>
    /\ stdout = 0

Init == InitDirect

PasswordCred == [Username |-> "root", Password |-> "pw", PrivateKey |-> ""]

\* One call of SSHBruteForce with one host and either one credential or
\* more credentials than the ceiling has slots; the host answers every dial
\* the same way.
InitCeiling ==
    /\ run = [pc |-> "none", job |-> 1, params |-> NoParams, tMsg |-> NoMsg]
    /\ \E debug \in BOOLEAN, c \in {1, CeilingCreds} :
         job = [j \in JobIds |->
                  IF j = 1
                  THEN CallSSHBruteForce(SubSeq(HostPool, 1, 1), DefaultPort,
                                         [n \in 1..c |-> PasswordCred], debug)
                  ELSE IdleJob]
    /\ worker = [j \in JobIds |-> IF j = 1 THEN IdleWorkers(SubSeq(HostPool, 1, 1)) ELSE <<>>]
    /\ net \in {[h \in HostSet |-> {o}] : o \in DialOutcomes}
    /\ crashed = FALSE
    /\ threadChannel = <<>>
    /\ stdout = 0

\* A trial of PasswordCred against host h that has dialled with outcome o and
\* is blocked in its send.
SendingTrial(h, o) ==
    LET t == NewTrial(h, PasswordCred)
    IN  [t EXCEPT !.pc = "send", !.outcome = o, !.res = SSHLoginResult(t.res, o)]

\* SSHBruteForce over two hosts and more credentials than the ceiling has
\* slots, at the moment when the worker of the first host has filled its
\* semaphore (lim trials launched, each dialled and blocked in its send:
\* nothing receives before the launch loop is over) and the goroutine of the
\* second host has not been started yet.  Every host accepts the credential.
InitOneHostSaturated ==
    /\ run = [pc |-> "none", job |-> 1, params |-> NoParams, tMsg |-> NoMsg]
    /\ job = [j \in JobIds |->
                IF j = 1
                THEN [CallSSHBruteForce(SubSeq(HostPool, 1, 2), DefaultPort,
                                        [n \in 1..CeilingCreds |-> PasswordCred], FALSE)
                        EXCEPT !.i = 1]
                ELSE IdleJob]
    /\ net = [h \in HostSet |-> {"ok"}]
    /\ worker = [j \in JobIds |->
                   IF j = 1
                   THEN <<[pc |-> "loop", i |-> lim, cur |-> lim, wg |-> lim,
                           trials |-> [t \in {SendingTrial(HostPool[1], "ok")} |-> lim]],
                          IdleWorker>>
                   ELSE <<>>]
    /\ crashed = FALSE
    /\ threadChannel = <<>>
    /\ stdout = 0

\* One call of SSHBruteForce with two hosts and one credential.
InitTwoHosts ==
    /\ run = [pc |-> "none", job |-> 1, params |-> NoParams, tMsg |-> NoMsg]
    /\ \E cred \in CredPool :
         job = [j \in JobIds |->
                  IF j = 1
                  THEN CallSSHBruteForce(SubSeq(HostPool, 1, 2), DefaultPort, <<cred>>, FALSE)
                  ELSE IdleJob]
    /\ worker = [j \in JobIds |-> IF j = 1 THEN IdleWorkers(SubSeq(HostPool, 1, 2)) ELSE <<>>]
    /\ net = AnyNet
    /\ crashed = FALSE
    /\ threadChannel = <<>>
    /\ stdout = 0

InitPerHost == InitTwoHosts \/ InitOneHostSaturated

\* Two calls of SSHBruteForce in one process at the same time, each with one
\* host of its own and one credential; sshResultChan is the one channel of
\* the package.
InitTwoJobs ==
    /\ run = [pc |-> "none", job |-> 1, params |-> NoParams, tMsg |-> NoMsg]
    /\ \E creds \in [JobIds -> CredPool] :
         job = [j \in JobIds |->
                  CallSSHBruteForce(SubSeq(HostPool, j, j), DefaultPort, <<creds[j]>>, FALSE)]
    /\ worker = [j \in JobIds |-> IdleWorkers(SubSeq(HostPool, j, j))]
    /\ net = AnyNet
    /\ crashed = FALSE
    /\ threadChannel = <<>>
    /\ stdout = 0

JobStep ==
    \/ \E j \in JobIds : LaunchWorker(j)
    \/ \E j \in JobIds : LaunchDone(j)
    \/ \E jr \in JobIds, js \in JobIds :
         \E k \in HostIdx(js) : \E t \in TrialsOf(js, k) : Receive(jr, js, k, t)
    \/ \E j \in JobIds : Return(j)
    \/ \E j \in JobIds : \E k \in HostIdx(j) : BruteLaunch(j, k)
    \/ \E j \in JobIds : \E k \in HostIdx(j) : BruteReturn(j, k)
    \/ \E j \in JobIds : \E k \in HostIdx(j) : \E t \in TrialsOf(j, k) : Dial(j, k, t)
    \/ \E j \in JobIds : \E k \in HostIdx(j) : \E t \in TrialsOf(j, k) : WgDone(j, k, t)
    \/ \E j \in JobIds : \E k \in HostIdx(j) : \E t \in TrialsOf(j, k) : Release(j, k, t)

Next == JobStep

\* One call of SSHBruteForce with any number of credentials.
Spec == Init /\ [][Next]_vars

\* One call of SSHBruteForce that saturates the ceiling of its host.
SpecCeiling == InitCeiling /\ [][Next]_vars

SpecPerHost == InitPerHost /\ [][Next]_vars

SpecTwoJobs == InitTwoJobs /\ [][Next]_vars

NextRun == RunValidate \/ RunFinish \/ JobStep

\* One call of Run.
SpecRun == InitRun /\ [][NextRun]_vars

\* The Go scheduler runs every goroutine that can take a step; every step of
\* the model moves some goroutine forward, so a step is taken whenever one
\* is possible.
SpecRunFair == InitRunAccepted /\ [][NextRun]_vars /\ WF_vars(NextRun)

----------------------------------------------------------------------------
(* Vocabulary of the properties *)

\* The results a trial has put forward: those handed over, and the one it
\* is blocked sending.
Produced(t) == t.sent + (IF t.pc = "send" THEN 1 ELSE 0)

\* SSHLogin has returned.
LoginReturned(t) == t.pc \in {"wgdone", "release", "exit"}

\* The trial goroutine has been launched and has not ended.
Running(t) == t.pc \in {"dial", "send", "wgdone", "release"}

InFlight(j, k) == BagCount(worker[j][k].trials, Running)

Receives(j) == BagCardinality(job[j].received)

\* Every goroutine of every job has ended.
AllGoroutinesDone ==
    \A j \in JobIds :
        job[j].pc # "idle" =>
            /\ job[j].pc = "returned"
            /\ \A k \in HostIdx(j) :
                 /\ worker[j][k].pc = "returned"
                 /\ \A t \in TrialsOf(j, k) : t.pc = "exit"

----------------------------------------------------------------------------
C2_ReceivesAllPairs ==
    \A j \in JobIds :
        job[j].pc = "returned" =>
            Receives(j) = Len(job[j].hosts) * Len(job[j].creds)

(* C3: a job with more than one credential per host never comes to rest    *)
(* before every goroutine has ended: as long as no dial has panicked,      *)
(* either SSHBruteForce has returned and every worker and every trial has  *)
(* ended, or some goroutine can still take a step (no send stays blocked   *)
(* with nobody left to receive it, no worker stays in wg.Wait).            *)
C3_NoGoroutineBlockedForever ==
    (\E j \in JobIds : Len(job[j].creds) > 1) =>
        (crashed \/ AllGoroutinesDone \/ ENABLED Next)

(* C4: against every host, the trials launched and not yet ended (those    *)
(* blocked sending their result included) never number more than the       *)
(* ceiling of 100, and Brute launches a trial only from a state with fewer *)
(* than 100 of them: at 100 its loop stays in Acquire until a Release.     *)
C4_CeilingRespected ==
    /\ [](\A j \in JobIds : \A k \in HostIdx(j) : InFlight(j, k) <= lim)
    /\ [][\A j \in JobIds : \A k \in HostIdx(j) :
            (worker[j][k].pc = "loop" /\ worker'[j][k].i > worker[j][k].i)
                => InFlight(j, k) < lim]_vars

\* The ceiling is saturated by trials blocked sending their result, and
\* Brute has credentials left to launch.
C4_Witness ==
    \E j \in JobIds : \E k \in HostIdx(j) :
        /\ InFlight(j, k) = lim
        /\ worker[j][k].pc = "loop"
        /\ worker[j][k].i < Len(job[j].creds)
        /\ BagCount(worker[j][k].trials, LAMBDA t : t.pc = "send") > 0

(* C5: with one credential, the list SSHBruteForce returns holds the       *)
(* result of a host exactly once when that host's attempt was produced     *)
(* with Success = true and not at all when it failed; nothing else is in   *)
(* the list.                                                               *)
C5_SuccessListExact ==
    \A j \in JobIds :
        (job[j].pc = "returned" /\ Len(job[j].creds) = 1) =>
            LET list == job[j].successfulHosts
            IN /\ \A k \in HostIdx(j) : \A t \in TrialsOf(j, k) :
                    Cardinality({n \in 1..Len(list) : list[n] = t.res})
                        = IF t.res.Success THEN 1 ELSE 0
               /\ \A n \in 1..Len(list) :
                    \E k \in HostIdx(j) : \E t \in TrialsOf(j, k) : list[n] = t.res

\* Three hosts, one credential: one host succeeded, two failed, and the
\* returned list has the one entry.
C5_Witness ==
    \E j \in JobIds :
        /\ job[j].pc = "returned"
        /\ Len(job[j].creds) = 1
        /\ Len(job[j].hosts) = 3
        /\ Len(job[j].successfulHosts) = 1
        /\ Cardinality({k \in HostIdx(j) :
                          \E t \in TrialsOf(j, k) : t.sent = 1 /\ ~t.res.Success}) = 2

\* A request that lacks a host, a username, or both secrets.
MissingField(params) ==
    \/ Len(params.Hosts) = 0
    \/ params.Username = ""
    \/ params.Password = "" /\ params.PrivateKey = ""

(* C6: a request with no hosts, no username, or neither a password nor a   *)
(* private key never starts a job (SSHBruteForce is not called, no worker  *)
(* and no trial exists), and once Run is done its one message to the       *)
(* caller carries Error = true and one of the three error texts.           *)
C6_InvalidRequestRejected ==
    (run.pc # "none" /\ run.params.ok /\ MissingField(run.params)) =>
        /\ run.pc \in {"start", "done"}
        /\ \A j \in JobIds : job[j].pc = "idle" /\ worker[j] = <<>>
        /\ run.pc = "start" => threadChannel = <<>>
        /\ run.pc = "done" =>
             /\ threadChannel = <<run.tMsg>>
             /\ run.tMsg.Error
             /\ run.tMsg.TaskResult.kind = "text"
             /\ run.tMsg.TaskResult.text \in {ErrNoHosts, ErrNoSecret, ErrNoUsername}

\* Run has answered a request that has hosts and a password and no username.
C6_Witness ==
    /\ run.pc = "done"
    /\ run.params.ok
    /\ Len(run.params.Hosts) > 0
    /\ run.params.Password # ""
    /\ run.params.Username = ""
    /\ run.tMsg.Error

\* Some attempt of the job Run started was produced with Success = true.
SomeAttemptSucceeded ==
    \E k \in HostIdx(run.job) : \E t \in TrialsOf(run.job, k) : t.res.Success

(* C7: when Run is done with a request that passed validation, its message *)
(* has Error = false and is the marker text when no attempt succeeded (or  *)
(* no host came out of the expansion), never a rendering of an empty list, *)
(* and the rendering of the non-empty success list when one succeeded.     *)
C7_ListOrMarker ==
    (run.pc = "done" /\ run.params.ok /\ ~MissingField(run.params)) =>
        /\ job[run.job].pc = "returned"
        /\ threadChannel = <<run.tMsg>>
        /\ ~run.tMsg.Error
        /\ ~SomeAttemptSucceeded => run.tMsg.TaskResult = TextResult(MarkerText)
        /\ SomeAttemptSucceeded =>
             /\ run.tMsg.TaskResult.kind = "json"
             /\ run.tMsg.TaskResult.list = job[run.job].successfulHosts
             /\ Len(run.tMsg.TaskResult.list) > 0

\* Run is done with a job of two hosts whose attempts both failed, and has
\* answered with the marker.
C7_Witness ==
    /\ run.pc = "done"
    /\ Len(job[run.job].hosts) = 2
    /\ \A k \in HostIdx(run.job) :
         \E t \in TrialsOf(run.job, k) : t.sent = 1 /\ ~t.res.Success
    /\ run.tMsg.TaskResult.text = MarkerText

(* C8: an attempt whose credential has a private key is configured with    *)
(* exactly one authentication method, the one PublicKeyFile gives for that *)
(* key: the password is not among the methods, also when the credential    *)
(* has a password and also when the key cannot be read.                    *)
C8_KeyPreferred ==
    \A j \in JobIds : \A k \in HostIdx(j) : \A t \in TrialsOf(j, k) :
        t.cred.PrivateKey # "" =>
            /\ Len(t.config.Auth) = 1
            /\ \A n \in 1..Len(t.config.Auth) : t.config.Auth[n].method # "password"
            /\ t.cred.PrivateKey \in GoodKeyFiles =>
                 t.config.Auth[1] = [method |-> "publickey", secret |-> t.cred.PrivateKey]

\* An attempt with a password and an unreadable key has dialled and failed,
\* and another with a password and a readable key has dialled.
C8_Witness ==
    \E j \in JobIds : \E k1 \in HostIdx(j), k2 \in HostIdx(j) :
        \E t1 \in TrialsOf(j, k1), t2 \in TrialsOf(j, k2) :
            /\ t1.cred.Password # "" /\ t1.cred.PrivateKey = "missing.key"
            /\ t1.pc = "send"
            /\ t2.cred.Password # "" /\ t2.cred.PrivateKey \in GoodKeyFiles
            /\ t2.pc = "send"

(* C9: an attempt whose private key cannot be read or parsed never panics  *)
(* (the process is not brought down, the job and the sibling attempts go   *)
(* on), and once its dial is over it puts forward exactly one result, with *)
(* Success = false.                                                        *)
C9_BadKeyFailsLocally ==
    /\ ~crashed
    /\ \A j \in JobIds : \A k \in HostIdx(j) : \A t \in TrialsOf(j, k) :
         (t.cred.PrivateKey # "" /\ t.cred.PrivateKey \notin GoodKeyFiles) =>
            /\ t.pc # "panic"
            /\ t.pc # "dial" => Produced(t) = 1 /\ ~t.res.Success

-----------------------------------------------------------------------------
(* Brute and its join barrier *)

\* The number of indices of creds that hold credential c.
Occurrences(creds, c) == Cardinality({i \in 1..Len(creds) : creds[i] = c})

\* The trials of worker k of job j that were launched with credential c and
\* whose result has been handed over on sshResultChan exactly once.
Delivered(j, k, c) ==
    LET Test(t) == t.cred = c /\ t.sent = 1 /\ t.res.Host = job[j].hosts[k]
    IN  BagCount(worker[j][k].trials, Test)

\* C11: when the Brute call of a host has returned, every credential of its
\* creds list has had exactly one result for that host handed over on
\* sshResultChan, and no trial it launched is still inside SSHLogin (dialling
\* or blocked in its send).
C11_BruteReturnsAfterAllResults ==
    \A j \in JobIds : \A k \in HostIdx(j) :
        worker[j][k].pc = "returned" =>
            /\ BagCardinality(worker[j][k].trials) = Len(job[j].creds)
            /\ \A i \in 1..Len(job[j].creds) :
                 Delivered(j, k, job[j].creds[i])
                     = Occurrences(job[j].creds, job[j].creds[i])
            /\ \A t \in TrialsOf(j, k) : LoginReturned(t) /\ t.sent = 1

\* The Brute call of one host has returned, its result delivered, while the
\* Brute call of another host of the same job is still waiting.
C11_Witness ==
    \E j \in JobIds : \E k, m \in HostIdx(j) :
        /\ worker[j][k].pc = "returned"
        /\ Delivered(j, k, job[j].creds[1]) = 1
        /\ worker[j][m].pc = "loop"
        /\ worker[j][m].wg > 0

\* The trial goroutine has only its deferred Release left to run.
Releasing(t) == t.pc = "release"

\* The slots held on the semaphore of worker k of job j are those of its
\* launched and unended trial goroutines.
SlotsMatchTrials(j, k) == worker[j][k].cur = InFlight(j, k)

\* C12 as stated: in every reachable state the slots held on a host's
\* semaphore are as many as its launched and unfinished trials, and when
\* Brute has returned the host's semaphore holds zero slots.
C12_ZeroSlotsAtReturn ==
    ~crashed =>
        \A j \in JobIds : \A k \in HostIdx(j) :
            /\ SlotsMatchTrials(j, k)
            /\ worker[j][k].pc = "returned" => worker[j][k].cur = 0

\* C12, amended: in every reachable state the slots held on a host's
\* semaphore are as many as its launched trial goroutines that have not
\* ended; when Brute has returned, each slot still held belongs to a trial
\* that has delivered its result and signalled the barrier and has only its
\* deferred Release left to run; once every trial goroutine has ended the
\* semaphore holds zero slots.
C12_SlotsMatchTrials ==
    ~crashed =>
        \A j \in JobIds : \A k \in HostIdx(j) :
            /\ SlotsMatchTrials(j, k)
            /\ worker[j][k].pc = "returned" =>
                   /\ worker[j][k].cur = BagCount(worker[j][k].trials, Releasing)
                   /\ \A t \in TrialsOf(j, k) : Releasing(t) => t.sent = 1
            /\ (\A t \in TrialsOf(j, k) : t.pc = "exit") => worker[j][k].cur = 0

\* Brute has returned while its last trial still holds its slot, and, on
\* another host, Brute has returned with every slot given back.
C12_Witness ==
    \E j \in JobIds : \E k, m \in HostIdx(j) :
        /\ worker[j][k].pc = "returned"
        /\ worker[j][k].cur = 1
        /\ worker[j][m].pc = "returned"
        /\ worker[j][m].cur = 0
        /\ BagCardinality(worker[j][m].trials) = 1

-----------------------------------------------------------------------------
(* The ceiling is per host *)

\* C13: the ceiling is per host only.  SSHBruteForce starts the worker of
\* the next host without waiting for any other host; each worker has its own
\* semaphore, which never holds more than lim slots; and acquiring a slot
\* for a host is enabled whenever that host has fewer than lim trials in
\* flight, however many trials are in flight against other hosts.
C13_CeilingPerHost ==
    ~crashed =>
        \A j \in JobIds :
            /\ (job[j].pc = "launch" /\ job[j].i < Len(job[j].hosts))
                   => ENABLED LaunchWorker(j)
            /\ \A k \in HostIdx(j) :
                 /\ worker[j][k].cur <= lim
                 /\ (/\ worker[j][k].pc = "loop"
                     /\ worker[j][k].i < Len(job[j].creds)
                     /\ InFlight(j, k) < lim)
                        => ENABLED BruteLaunch(j, k)

\* One host has its lim trials in flight and a trial has been launched
\* against another host all the same: the trials in flight across the hosts
\* are more than the ceiling of one host.
C13_Witness ==
    \E j \in JobIds : \E k, m \in HostIdx(j) :
        /\ InFlight(j, k) = lim
        /\ InFlight(j, m) > 0
        /\ HeldByJobs(NumJobs) > lim

-----------------------------------------------------------------------------
(* Results echo their inputs *)

\* The secret a result must echo for credential c.
SecretEcho(c) == IF c.PrivateKey # "" THEN c.PrivateKey ELSE c.Password

\* Result res is the echo of host h and credential c.
Echoes(res, h, c) ==
    /\ res.Host = h
    /\ res.Username = c.Username
    /\ res.Secret = SecretEcho(c)

\* The trials of worker k of job j launched with credential c.
LaunchedWith(j, k, c) ==
    LET Test(t) == t.cred = c
    IN  BagCount(worker[j][k].trials, Test)

\* C14: every result echoes the Host, the Username and the Secret (the
\* private key if one is present, else the password) of its own trial; the
\* trials launched so far against a host are those of the credentials at the
\* loop indices passed so far; and every result received or returned is the
\* echo of one (host, credential) pair of the job that produced it.
C14_ResultEchoesOwnPair ==
    \A j \in JobIds :
        /\ \A k \in HostIdx(j) :
             /\ \A t \in TrialsOf(j, k) : Echoes(t.res, job[j].hosts[k], t.cred)
             /\ \A c \in CredPool :
                  LaunchedWith(j, k, c)
                      = Occurrences(SubSeq(job[j].creds, 1, worker[j][k].i), c)
        /\ \A e \in BagToSet(job[j].received) :
             \E k \in HostIdx(e.src) : \E i \in 1..Len(job[e.src].creds) :
                 Echoes(e.res, job[e.src].hosts[k], job[e.src].creds[i])
        /\ \A n \in 1..Len(job[j].successfulHosts) :
             \E e \in BagToSet(job[j].received) : e.res = job[j].successfulHosts[n]

\* Against one host, a trial with a password credential and a trial with a
\* key credential of the same user and password have both produced their
\* result, one echoing the password and the other the key.
C14_Witness ==
    \E j \in JobIds : \E k \in HostIdx(j) : \E t1, t2 \in TrialsOf(j, k) :
        /\ Produced(t1) = 1 /\ Produced(t2) = 1
        /\ t1.cred.PrivateKey = "" /\ t2.cred.PrivateKey # ""
        /\ t1.cred.Username = t2.cred.Username
        /\ t1.cred.Password = t2.cred.Password
        /\ t1.res.Secret = t1.cred.Password
        /\ t2.res.Secret = t2.cred.PrivateKey

-----------------------------------------------------------------------------
(* Host entries that do not expand *)

\* The hosts of the first n entries that expand, entry by entry.
RECURSIVE ExpandedUpTo(_, _)
ExpandedUpTo(entries, n) ==
    IF n = 0 THEN <<>>
    ELSE ExpandedUpTo(entries, n - 1) \o
         (IF NewCIDR(entries[n]).err THEN <<>> ELSE NewCIDR(entries[n]).Hosts)

\* The attempts launched by job j.
RECURSIVE AttemptsUpTo(_, _)
AttemptsUpTo(j, k) ==
    IF k = 0 THEN 0
    ELSE BagCardinality(worker[j][k].trials) + AttemptsUpTo(j, k - 1)

\* C15: a host entry that does not expand is skipped silently.  For a
\* request that passes the checks, the job runs on exactly the hosts of the
\* entries that expand, in entry order; never more than one attempt per
\* expanded host is launched, and when Run has answered, the attempts
\* launched are as many as the expanded hosts and the answer is no error.
C15_BadEntriesSkipped ==
    (run.pc \in {"brute", "done"} /\ ~MissingField(run.params) /\ run.params.ok) =>
        LET hosts == ExpandedUpTo(run.params.Hosts, Len(run.params.Hosts))
        IN  /\ job[run.job].hosts = hosts
            /\ Len(job[run.job].creds) = 1
            /\ AttemptsUpTo(run.job, Len(hosts)) <= Len(hosts)
            /\ run.pc = "done" =>
                   /\ AttemptsUpTo(run.job, Len(hosts)) = Len(hosts)
                   /\ run.tMsg.Error = FALSE
                   /\ threadChannel = <<run.tMsg>>

\* Run has answered a request whose first entry does not expand and whose
\* second entry is a range of two hosts.
C15_Witness ==
    /\ run.pc = "done"
    /\ run.params.Hosts = <<"bogus", "h2/31">>
    /\ job[run.job].hosts = <<"h2", "h3">>
    /\ AttemptsUpTo(run.job, 2) = 2
    /\ run.tMsg.Error = FALSE

-----------------------------------------------------------------------------
(* Concurrent jobs and the package-level channel *)

\* The results job j has received that were produced by its own trials.
OwnReceived(j) ==
    LET Test(e) == e.src = j
    IN  BagCount(job[j].received, Test)

\* The trials of job j whose result has been received by some job.
RECURSIVE SentUpTo(_, _)
SentUpTo(j, k) ==
    IF k = 0 THEN 0
    ELSE LET Test(t) == t.sent = 1
         IN  BagCount(worker[j][k].trials, Test) + SentUpTo(j, k - 1)

\* C16: jobs do not interfere through the result channel: every result an
\* invocation of SSHBruteForce receives or returns was produced by its own
\* trials, and an invocation that has returned has received every result of
\* its own trials.
C16_JobsDoNotInterfere ==
    \A j \in JobIds :
        /\ \A e \in BagToSet(job[j].received) : e.src = j
        /\ \A n \in 1..Len(job[j].successfulHosts) :
             \E k \in HostIdx(j) : job[j].successfulHosts[n].Host = job[j].hosts[k]
        /\ job[j].pc = "returned" =>
               OwnReceived(j) = Len(job[j].hosts) * Len(job[j].creds)

-----------------------------------------------------------------------------
(* Termination of a one-credential job *)

\* SSHBruteForce of job j has returned after exactly len(hosts) receives,
\* every worker and every trial goroutine has ended, and no slot is held.
JobFinished(j) ==
    /\ job[j].pc = "returned"
    /\ Receives(j) = Len(job[j].hosts)
    /\ \A k \in HostIdx(j) :
         /\ worker[j][k].pc = "returned"
         /\ worker[j][k].cur = 0
         /\ worker[j][k].wg = 0
         /\ BagCardinality(worker[j][k].trials) = 1
         /\ \A t \in TrialsOf(j, k) : t.pc = "exit"

\* C17: a one-credential job run in isolation terminates, provided every
\* dial returns: once Run has called SSHBruteForce, either a dial panics
\* instead of returning, or the call eventually returns after exactly
\* len(hosts) receives, with every trial goroutine and every worker ended
\* and every semaphore slot released.
C17_OneCredentialJobTerminates ==
    (run.pc = "brute") ~> (crashed \/ JobFinished(run.job))

\* A job over two hosts has finished and Run has answered.
C17_Witness ==
    /\ run.pc = "done"
    /\ ~crashed
    /\ Len(job[run.job].hosts) = 2
    /\ JobFinished(run.job)

-----------------------------------------------------------------------------
(* The receive comes before the release and the signal *)

\* The result of trial t has not been received.
Unreceived(t) == t.sent = 0

\* C18: for every trial the aggregator's receive of its result comes before
\* the trial signals the barrier and before it releases its slot: wg.Done
\* and Release are only ever taken by a trial whose result has been
\* received, so every trial whose result is not yet received is counted by
\* the WaitGroup and by the semaphore of its host, and Brute has not
\* returned while there is one.
C18_ReceiveBeforeRelease ==
    /\ [](\A j \in JobIds : \A k \in HostIdx(j) :
            LET n == BagCount(worker[j][k].trials, Unreceived)
            IN  /\ worker[j][k].wg >= n
                /\ worker[j][k].cur >= n
                /\ n > 0 => worker[j][k].pc # "returned"
                /\ \A t \in TrialsOf(j, k) :
                     t.pc \in {"release", "exit"} => ~Unreceived(t))
    /\ [][\A j \in JobIds : \A k \in HostIdx(j) : \A t \in TrialsOf(j, k) :
            (WgDone(j, k, t) \/ Release(j, k, t)) => ~Unreceived(t)]_vars

\* The lim trials in flight against a host are all blocked in their send,
\* none received yet; they fill the ceiling, so the next credential cannot
\* be launched, and Brute waits.
C18_Witness ==
    \E j \in JobIds : \E k \in HostIdx(j) :
        /\ BagCount(worker[j][k].trials, Unreceived) = lim
        /\ \A t \in TrialsOf(j, k) : t.pc = "send"
        /\ worker[j][k].i < Len(job[j].creds)
        /\ ~CanAcquire(worker[j][k].cur)
        /\ worker[j][k].pc = "loop"

-----------------------------------------------------------------------------
(* One answer per call of Run *)

\* Run took one of its failure paths: the request did not unmarshal, failed
\* a check, or the success list did not marshal.
FailurePath ==
    \/ ~run.params.ok
    \/ MissingField(run.params)
    \/ /\ Len(job[run.job].successfulHosts) > 0
       /\ MarshalIndent(job[run.job].successfulHosts).err

\* C19: a call of Run sends one ThreadMsg on threadChannel and no more:
\* nothing is sent before Run is done, and when Run is done, on whichever
\* path, exactly one message has been sent, it carries the task Run was
\* called with, and its Error is true exactly when Run took the unmarshal,
\* a validation or the marshal failure path.
C19_ExactlyOneThreadMsg ==
    /\ Len(threadChannel) <= 1
    /\ run.pc \in {"start", "brute"} => threadChannel = <<>>
    /\ run.pc = "done" =>
           /\ threadChannel = <<run.tMsg>>
           /\ run.tMsg.TaskItem = run.params.task
           /\ run.tMsg.Error <=> FailurePath

\* Run has answered a request that did not unmarshal.
C19_Witness ==
    /\ run.pc = "done"
    /\ ~run.params.ok
    /\ Len(threadChannel) = 1
    /\ threadChannel[1].Error
    /\ threadChannel[1].TaskItem = "t1"
    /\ threadChannel[1].TaskResult = TextResult(ErrUnmarshal)
====
